---- MODULE Spec2Model ----
(***************************************************************************)
(* Local order book of src/src/main.rs: OrderBook (from_snapshot,          *)
(* apply_depth_update) and the message loop of main that owns the          *)
(* Option<OrderBook>.                                                      *)
(*                                                                         *)
(* Strings are sequences of one-character strings, so that parsing a       *)
(* price or a quantity is computed from the characters.  A Decimal is a    *)
(* record [m, e] standing for m * 10^(-e); BTreeMap<Decimal, Decimal> is   *)
(* a function whose domain is the set of keys.  Decimal's Eq/Ord compare   *)
(* numerically, so keys are held in normalised form (no trailing zeros).   *)
(***************************************************************************)
EXTENDS Integers, Sequences, FiniteSets, TLC

VARIABLES order_book, update, outcome, snapshot_id, buffered, wire, mutated

vars == <<order_book, update, outcome, snapshot_id, buffered, wire, mutated>>

(***************************************************************************)
(* Bounds of the model.                                                    *)
(***************************************************************************)
\* update ids and snapshot ids range over 1..MaxId
MaxId == 3
\* an update or a snapshot carries at most MaxDeltas [price, quantity] pairs
MaxDeltas == 2
\* at most MaxBuffered updates are read while no order book exists
MaxBuffered == 2
\* a snapshot fetched in SpecRetry has at most MaxRetryLevels levels
MaxRetryLevels == 1

(***************************************************************************)
(* Input alphabet: the price and quantity strings of the wire records.     *)
(***************************************************************************)
PriceStrs == { <<"1", ".", "0">>, <<"2">> }

QtyStrs == { <<"0", ".", "0", "0">>, <<"3">>, <<"-", "1">>, <<"x">> }

Digits == {"0", "1", "2", "3", "4", "5", "6", "7", "8", "9"}

DigitVal(c) ==
  CASE c = "0" -> 0 [] c = "1" -> 1 [] c = "2" -> 2 [] c = "3" -> 3
    [] c = "4" -> 4 [] c = "5" -> 5 [] c = "6" -> 6 [] c = "7" -> 7
    [] c = "8" -> 8 [] c = "9" -> 9

\* Err(rust_decimal::Error) of a parse
ParseError == [error |-> "invalid decimal"]

RECURSIVE parse_digits(_, _, _, _)
\* the digits of s from position i on: mantissa m, scale e (-1 before the point)
parse_digits(s, i, m, e) ==
  IF i > Len(s) THEN [m |-> m, e |-> IF e < 0 THEN 0 ELSE e]
  ELSE IF s[i] \in Digits
    THEN parse_digits(s, i + 1, 10 * m + DigitVal(s[i]), IF e < 0 THEN e ELSE e + 1)
  ELSE IF s[i] = "." /\ e < 0 /\ i > 1 /\ i < Len(s) /\ s[i - 1] \in Digits
    THEN parse_digits(s, i + 1, m, 0)
  ELSE ParseError

\* str::parse::<Decimal>(): optional sign, digits, optional fraction
parse_decimal(s) ==
  IF Len(s) = 0 THEN ParseError
  ELSE IF s[1] = "-" \/ s[1] = "+"
    THEN IF Len(s) = 1 THEN ParseError
         ELSE LET r == parse_digits(Tail(s), 1, 0, -1) IN
              IF r = ParseError THEN ParseError
              ELSE IF s[1] = "-" THEN [m |-> 0 - r.m, e |-> r.e] ELSE r
  ELSE parse_digits(s, 1, 0, -1)

RECURSIVE normalize(_)
\* the representative of a Decimal under its numeric equality
normalize(d) ==
  IF d.m = 0 THEN [m |-> 0, e |-> 0]
  ELSE IF d.e > 0 /\ d.m % 10 = 0 THEN normalize([m |-> d.m \div 10, e |-> d.e - 1])
  ELSE d

is_zero(d) == d.m = 0

\* every string of the alphabet, parsed once
Parsed == [s \in PriceStrs \cup QtyStrs |-> parse_decimal(s)]

(***************************************************************************)
(* Wire records.  A delta is [String; 2]: <<price, quantity>>.             *)
(***************************************************************************)
Deltas == PriceStrs \X QtyStrs

SeqsUpTo(S, n) == UNION { [1..k -> S] : k \in 0..n }

\* the two sides of one record: bids first, asks second
Sides ==
  { p \in SeqsUpTo(Deltas, MaxDeltas) \X SeqsUpTo(Deltas, MaxDeltas) :
      Len(p[1]) + Len(p[2]) <= MaxDeltas }

\* U and u of a DepthUpdate (U: first update id, u: last update id)
UpdateIds == { p \in (1..MaxId) \X (1..MaxId) : p[1] <= p[2] }

\* struct DepthUpdate (e, E and s are never read)
DepthUpdate == { [U |-> i[1], u |-> i[2], b |-> s[1], a |-> s[2]] : i \in UpdateIds, s \in Sides }

\* struct DepthSnapshot
DepthSnapshot == { [lastUpdateId |-> l, bids |-> s[1], asks |-> s[2]] : l \in 1..MaxId, s \in Sides }

\* Option<OrderBook>::None
NoBook == [none |-> TRUE]

NoUpdate == [U |-> 0, u |-> 0]

\* no record kept
NoWire == [kind |-> "none", rec |-> <<>>]

EmptyMap == [k \in {} |-> 0]

(***************************************************************************)
(* BTreeMap<Decimal, Decimal>                                              *)
(***************************************************************************)
map_insert(m, k, v) == [x \in DOMAIN m \cup {k} |-> IF x = k THEN v ELSE m[x]]

\* map_remove, were the key left in the map
map_remove_nothing(m, k) == m

map_remove(m, k) == [x \in DOMAIN m \ {k} |-> m[x]]

(***************************************************************************)
(* OrderBook::from_snapshot                                                *)
(***************************************************************************)
\* the test under which from_snapshot inserts a parsed level
keeps_level(quantity) == ~is_zero(quantity)

RECURSIVE load_side(_, _, _)
\* one loop of from_snapshot over a side of the snapshot, from position i
load_side(levels, i, m) ==
  IF i > Len(levels) THEN [ok |-> TRUE, map |-> m]
  ELSE LET price == Parsed[levels[i][1]]
           quantity == Parsed[levels[i][2]] IN
       IF price = ParseError \/ quantity = ParseError THEN [ok |-> FALSE, map |-> m]
       ELSE IF keeps_level(quantity)
         THEN load_side(levels, i + 1, map_insert(m, normalize(price), quantity))
       ELSE load_side(levels, i + 1, m)

\* from_snapshot, were a failed parse on the ask side dropped
from_snapshot_lenient(snapshot) ==
  LET rb == load_side(snapshot.bids, 1, EmptyMap) IN
  IF ~rb.ok THEN ParseError
  ELSE LET ra == load_side(snapshot.asks, 1, EmptyMap) IN
       [last_update_id |-> snapshot.lastUpdateId, bids |-> rb.map, asks |-> ra.map]

from_snapshot(snapshot) ==
  LET rb == load_side(snapshot.bids, 1, EmptyMap) IN
  IF ~rb.ok THEN ParseError
  ELSE LET ra == load_side(snapshot.asks, 1, EmptyMap) IN
       IF ~ra.ok THEN ParseError
       ELSE [last_update_id |-> snapshot.lastUpdateId, bids |-> rb.map, asks |-> ra.map]

(***************************************************************************)
(* OrderBook::apply_depth_update                                           *)
(***************************************************************************)
\* upsert, were a zero quantity inserted like any other
upsert_without_removal(m, price, quantity) == map_insert(m, price, quantity)

\* the body of the loops of apply_depth_update, once both strings are parsed
upsert(m, price, quantity) ==
  IF is_zero(quantity) THEN map_remove(m, price) ELSE map_insert(m, price, quantity)

RECURSIVE apply_side(_, _, _)
\* one loop of apply_depth_update over a side of the update, from position i;
\* the map is changed in place, so what was done before a failed parse stays
apply_side(deltas, i, m) ==
  IF i > Len(deltas) THEN [ok |-> TRUE, map |-> m]
  ELSE LET price == Parsed[deltas[i][1]]
           quantity == Parsed[deltas[i][2]] IN
       IF price = ParseError \/ quantity = ParseError THEN [ok |-> FALSE, map |-> m]
       ELSE apply_side(deltas, i + 1, upsert(m, normalize(price), quantity))

\* accepts, were the comparison not strict
accepts_or_equal(self, upd) == self.last_update_id <= upd.u

\* the condition under which the update is applied
accepts(self, upd) == self.last_update_id < upd.u

\* new_last_update_id, were the first update id stored
new_last_update_id_first(self, upd) == upd.U

\* the value stored into last_update_id after the two loops
new_last_update_id(self, upd) == upd.u

\* apply_depth_update, were the ask deltas applied to the bids as well
apply_depth_update_crossed(self, upd) ==
  IF accepts(self, upd)
  THEN LET rb == apply_side(upd.b, 1, self.bids) IN
       IF ~rb.ok THEN [book |-> [self EXCEPT !.bids = rb.map], result |-> "ParseErr"]
       ELSE LET ra == apply_side(upd.a, 1, self.asks)
                rc == apply_side(upd.a, 1, rb.map) IN
            IF ~ra.ok
            THEN [book |-> [self EXCEPT !.bids = rc.map, !.asks = ra.map],
                  result |-> "ParseErr"]
            ELSE [book |-> [last_update_id |-> new_last_update_id(self, upd),
                            bids |-> rc.map, asks |-> ra.map],
                  result |-> "Ok"]
  ELSE [book |-> self, result |-> "Err"]

\* result: "Ok", "Err" (the id error of the else branch) or "ParseErr" (a `?`)
apply_depth_update(self, upd) ==
  IF accepts(self, upd)
  THEN LET rb == apply_side(upd.b, 1, self.bids) IN
       IF ~rb.ok THEN [book |-> [self EXCEPT !.bids = rb.map], result |-> "ParseErr"]
       ELSE LET ra == apply_side(upd.a, 1, self.asks) IN
            IF ~ra.ok
            THEN [book |-> [self EXCEPT !.bids = rb.map, !.asks = ra.map],
                  result |-> "ParseErr"]
            ELSE [book |-> [last_update_id |-> new_last_update_id(self, upd),
                            bids |-> rb.map, asks |-> ra.map],
                  result |-> "Ok"]
  ELSE [book |-> self, result |-> "Err"]

(***************************************************************************)
(* Decimal: Ord and Sub                                                    *)
(***************************************************************************)
RECURSIVE pow10(_)
pow10(n) == IF n <= 0 THEN 1 ELSE 10 * pow10(n - 1)

\* the mantissa of d at scale e (e >= d.e)
rescale(d, e) == d.m * pow10(e - d.e)

\* Decimal::cmp: numeric, whatever the scales
cmp(x, y) ==
  LET e == IF x.e > y.e THEN x.e ELSE y.e IN
  IF rescale(x, e) < rescale(y, e) THEN "Less"
  ELSE IF rescale(x, e) > rescale(y, e) THEN "Greater"
  ELSE "Equal"

\* Decimal - Decimal
sub(x, y) ==
  LET e == IF x.e > y.e THEN x.e ELSE y.e IN
  [m |-> rescale(x, e) - rescale(y, e), e |-> e]

(***************************************************************************)
(* OrderBook: bids_list, asks_list, best_bid, best_ask, spread.            *)
(* A level is <<price, quantity>>; an Option is a sequence of length <= 1. *)
(***************************************************************************)
RECURSIVE iter(_)
\* BTreeMap::iter: the entries in increasing order of the keys
iter(m) ==
  IF DOMAIN m = {} THEN <<>>
  ELSE LET k == CHOOSE x \in DOMAIN m : \A y \in DOMAIN m : cmp(x, y) # "Greater" IN
       <<<<k, m[k]>>>> \o iter(map_remove(m, k))

\* the comparator of bids_list: |a, b| b.0.cmp(&a.0)
by_price_descending(a, b) == cmp(b[1], a[1])

RECURSIVE insert_sorted(_, _, _)
\* x placed behind every element of the sorted s that does not come after it
insert_sorted(s, x, i) ==
  IF i > Len(s) THEN Append(s, x)
  ELSE IF by_price_descending(s[i], x) = "Greater"
    THEN SubSeq(s, 1, i - 1) \o <<x>> \o SubSeq(s, i, Len(s))
  ELSE insert_sorted(s, x, i + 1)

RECURSIVE sort_by(_, _)
\* slice::sort_by (stable) with by_price_descending, over the first n elements
sort_by(s, n) ==
  IF n = 0 THEN <<>> ELSE insert_sorted(sort_by(s, n - 1), s[n], 1)

\* bids_list, were the sort left out
bids_list_unsorted(self) == iter(self.bids)

bids_list(self) == LET bids == iter(self.bids) IN sort_by(bids, Len(bids))

asks_list(self) == iter(self.asks)

RECURSIVE max_by(_, _, _)
\* Iterator::max_by on the keys: the last of the greatest elements
max_by(s, i, best) ==
  IF i > Len(s) THEN <<best>>
  ELSE max_by(s, i + 1, IF cmp(best[1], s[i][1]) = "Greater" THEN best ELSE s[i])

RECURSIVE min_by(_, _, _)
\* Iterator::min_by on the keys: the first of the least elements
min_by(s, i, best) ==
  IF i > Len(s) THEN <<best>>
  ELSE min_by(s, i + 1, IF cmp(best[1], s[i][1]) = "Greater" THEN s[i] ELSE best)

\* best_bid, were the least key taken
best_bid_lowest(self) ==
  LET s == iter(self.bids) IN IF s = <<>> THEN <<>> ELSE min_by(s, 2, s[1])

best_bid(self) ==
  LET s == iter(self.bids) IN IF s = <<>> THEN <<>> ELSE max_by(s, 2, s[1])

best_ask(self) ==
  LET s == iter(self.asks) IN IF s = <<>> THEN <<>> ELSE min_by(s, 2, s[1])

spread(self) ==
  LET bid == best_bid(self)
      ask == best_ask(self) IN
  IF bid # <<>> /\ ask # <<>> THEN <<sub(ask[1][1], bid[1][1])>> ELSE <<>>

(***************************************************************************)
(* main: the loop over socket.read()                                       *)
(***************************************************************************)
\* order_book: Option<OrderBook> of main
\* update: U and u of the depthUpdate message handled last
\* outcome: what the handling of that message ended with
\* snapshot_id: lastUpdateId of the snapshot fetched last (0: none yet)
\* buffered: U and u of the messages read, and not applied, since order_book
\*           was last found None, before the one handled last
\* wire: the record (snapshot or update) the last step consumed, in full;
\*       kept by SpecLedger only
\* mutated: u of the last update that changed the order book (0: none);
\*          kept by SpecOrder only
Init ==
  /\ order_book = NoBook
  /\ update = NoUpdate
  /\ outcome = "Start"
  /\ snapshot_id = 0
  /\ buffered = <<>>
  /\ wire = NoWire
  /\ mutated = 0

Ids(upd) == [U |-> upd.U, u |-> upd.u]

\* a depthUpdate message while order_book is Some: apply_depth_update
ApplyUpdate ==
  /\ order_book # NoBook
  /\ \E upd \in DepthUpdate :
       LET r == apply_depth_update(order_book, upd) IN
       /\ order_book' = r.book
       /\ outcome' = r.result
       /\ update' = Ids(upd)
  /\ UNCHANGED <<snapshot_id, buffered, wire, mutated>>

\* the test under which main installs the ledger built from the snapshot
\* adopts, were no snapshot ever taken
adopts_never(upd, ob) == FALSE

adopts(upd, ob) == upd.U < ob.last_update_id /\ ob.last_update_id > upd.u

\* a depthUpdate message while order_book is None, get_depth_snapshot fails
FetchFails ==
  /\ order_book = NoBook
  /\ Len(buffered) < MaxBuffered
  /\ \E ids \in UpdateIds :
       /\ update' = [U |-> ids[1], u |-> ids[2]]
       /\ buffered' = Append(buffered, update')
  /\ outcome' = "FetchErr"
  /\ UNCHANGED <<order_book, snapshot_id, wire, mutated>>

\* a depthUpdate message while order_book is None, get_depth_snapshot succeeds
\* (the deltas of the update are not read on this path)
FetchSnapshot ==
  /\ order_book = NoBook
  /\ Len(buffered) < MaxBuffered
  /\ \E ids \in UpdateIds, snapshot \in DepthSnapshot :
       LET upd == [U |-> ids[1], u |-> ids[2]]
           ob == from_snapshot(snapshot) IN
       /\ update' = upd
       /\ snapshot_id' = snapshot.lastUpdateId
       /\ IF ob = ParseError
          THEN /\ outcome' = "SnapshotParseErr"
               /\ order_book' = NoBook
               /\ buffered' = Append(buffered, upd)
          ELSE IF adopts(upd, ob)
          THEN /\ outcome' = "Created"
               /\ order_book' = [ob EXCEPT !.last_update_id = upd.u]
               /\ buffered' = <<>>
          ELSE /\ outcome' = "NotCreated"
               /\ order_book' = NoBook
               /\ buffered' = Append(buffered, upd)
  /\ UNCHANGED <<wire, mutated>>

\* Any other turn of the loop (a partial depth record, a frame that is no
\* text, a depthUpdate that does not deserialize, a socket.read() that
\* returns Err) prints or skips, changes nothing and reads again: a
\* stuttering step.
Next == ApplyUpdate \/ FetchFails \/ FetchSnapshot

Spec == Init /\ [][Next]_vars

(***************************************************************************)
(* SpecLedger: the first snapshot and the first update after it, with the  *)
(* records kept in full, for the properties that speak of their entries.   *)
(***************************************************************************)
\* the first depthUpdate message and the snapshot fetched for it
LoadSnapshot ==
  /\ order_book = NoBook
  /\ wire = NoWire
  /\ \E ids \in UpdateIds, snapshot \in DepthSnapshot :
       LET upd == [U |-> ids[1], u |-> ids[2]]
           ob == from_snapshot(snapshot) IN
       /\ update' = upd
       /\ snapshot_id' = snapshot.lastUpdateId
       /\ wire' = [kind |-> "snapshot", rec |-> snapshot]
       /\ IF ob = ParseError
          THEN /\ outcome' = "SnapshotParseErr"
               /\ order_book' = NoBook
               /\ buffered' = Append(buffered, upd)
          ELSE IF adopts(upd, ob)
          THEN /\ outcome' = "Created"
               /\ order_book' = [ob EXCEPT !.last_update_id = upd.u]
               /\ buffered' = <<>>
          ELSE /\ outcome' = "NotCreated"
               /\ order_book' = NoBook
               /\ buffered' = Append(buffered, upd)
  /\ UNCHANGED mutated

\* the first depthUpdate message after the order book was installed
ApplyRecorded ==
  /\ order_book # NoBook
  /\ wire.kind = "snapshot"
  /\ \E upd \in DepthUpdate :
       LET r == apply_depth_update(order_book, upd) IN
       /\ order_book' = r.book
       /\ outcome' = r.result
       /\ update' = Ids(upd)
       /\ wire' = [kind |-> "update", rec |-> upd]
  /\ UNCHANGED <<snapshot_id, buffered, mutated>>

NextLedger == LoadSnapshot \/ ApplyRecorded

SpecLedger == Init /\ [][NextLedger]_vars

(***************************************************************************)
(* SpecStream: the loop with the failures of socket.read().                *)
(***************************************************************************)
\* socket.read() returns Err(e): the error is printed, nothing else is done
\* and the loop takes its next turn
ReadError ==
  /\ outcome' = "ReadErr"
  /\ UNCHANGED <<order_book, update, snapshot_id, buffered, wire, mutated>>

NextStream == Next \/ ReadError

SpecStream == Init /\ [][NextStream]_vars

(***************************************************************************)
(* SpecOrder: the loop, with the u of the last update that changed the     *)
(* order book remembered.                                                  *)
(***************************************************************************)
ApplyTracked ==
  /\ order_book # NoBook
  /\ \E upd \in DepthUpdate :
       LET r == apply_depth_update(order_book, upd) IN
       /\ order_book' = r.book
       /\ outcome' = r.result
       /\ update' = Ids(upd)
       /\ mutated' = IF r.book # order_book THEN upd.u ELSE mutated
  /\ UNCHANGED <<snapshot_id, buffered, wire>>

NextOrder == ApplyTracked \/ FetchFails \/ FetchSnapshot

SpecOrder == Init /\ [][NextOrder]_vars

(***************************************************************************)
(* SpecRetry: the loop with any number of turns while order_book is None,  *)
(* under a stream that keeps delivering depthUpdate messages and a         *)
(* snapshot service that does not fail for ever.                           *)
(***************************************************************************)
\* the snapshots the service answers with
RetrySnapshots ==
  { s \in DepthSnapshot : Len(s.bids) + Len(s.asks) <= MaxRetryLevels }

\* depthUpdate message, order_book is None, get_depth_snapshot returns Err
RetryFails ==
  /\ order_book = NoBook
  /\ \E ids \in UpdateIds : update' = [U |-> ids[1], u |-> ids[2]]
  /\ outcome' = "FetchErr"
  /\ UNCHANGED <<order_book, snapshot_id, buffered, wire, mutated>>

\* depthUpdate message, order_book is None, get_depth_snapshot returns Ok
RetrySnapshot ==
  /\ order_book = NoBook
  /\ \E ids \in UpdateIds, snapshot \in RetrySnapshots :
       LET upd == [U |-> ids[1], u |-> ids[2]]
           ob == from_snapshot(snapshot) IN
       /\ update' = upd
       /\ snapshot_id' = snapshot.lastUpdateId
       /\ IF ob = ParseError
          THEN /\ outcome' = "SnapshotParseErr"
               /\ order_book' = NoBook
          ELSE IF adopts(upd, ob)
          THEN /\ outcome' = "Created"
               /\ order_book' = [ob EXCEPT !.last_update_id = upd.u]
          ELSE /\ outcome' = "NotCreated"
               /\ order_book' = NoBook
  /\ UNCHANGED <<buffered, wire, mutated>>

\* a depthUpdate message arrives and the snapshot fetched for it is taken
Adopted == RetrySnapshot /\ order_book' # NoBook

NextRetry == RetryFails \/ RetrySnapshot \/ ApplyUpdate

SpecRetry == Init /\ [][NextRetry]_vars /\ WF_vars(Adopted)

(***************************************************************************)
(* Properties                                                              *)
(***************************************************************************)
Live == order_book # NoBook

Range(q) == { q[i] : i \in DOMAIN q }

Quantities(book) == Range(book.bids) \cup Range(book.asks)

\* C1: an update whose first update id U is greater than last_update_id + 1
\* is answered with the id error and leaves bids, asks and last_update_id
\* as they were.
C1_GapRejected ==
  [][(Live /\ update'.U > order_book.last_update_id + 1)
       => (outcome' = "Err" /\ order_book' = order_book)]_vars

\* C2: an update with a string that does not parse leaves bids, asks and
\* last_update_id as they were before the call.
C2_AtomicParseFailure ==
  [][(Live /\ outcome' = "ParseErr") => order_book' = order_book]_vars

\* C3: when apply_depth_update answers with the id error ("ids not
\* continuous, fetch the snapshot again"), main drops the order book.
C3_ResyncOnGap ==
  [][(Live /\ outcome' = "Err") => order_book' = NoBook]_vars

C5_BufferedReplayed ==
  [][(~Live /\ Live')
       => \A r \in Range(Append(buffered, update')) :
            r.u > snapshot_id' => order_book'.last_update_id >= r.u]_vars

\* C6: an update whose u is at most the lastUpdateId of the snapshot the
\* order book was built from changes neither bids nor asks.
C6_NoReapply ==
  [][(Live /\ update'.u <= snapshot_id)
       => (order_book'.bids = order_book.bids /\ order_book'.asks = order_book.asks)]_vars

\* C7: an update whose u is at most last_update_id changes neither bids,
\* asks nor last_update_id, each time it is applied.
C7_StaleUnchanged ==
  [][(Live /\ update'.u <= order_book.last_update_id) => order_book' = order_book]_vars

\* a stale update has been handed to apply_depth_update of a filled book
C7_Witness ==
  /\ Live
  /\ outcome = "Err"
  /\ update.u <= order_book.last_update_id
  /\ DOMAIN order_book.bids # {}

\* C8: last_update_id never falls below a value it held: the order book is
\* created with the lastUpdateId of its snapshot, so it is never below that.
C8_NonDecreasing ==
  Live => order_book.last_update_id >= snapshot_id

\* C9: no entry of bids or asks has a zero or negative quantity.
C9_PositiveQuantities ==
  Live => \A q \in Quantities(order_book) : q.m > 0

\* C9 (amended): no entry of bids or asks has a zero quantity.
C9_NoZeroQuantity ==
  Live => \A q \in Quantities(order_book) : ~is_zero(q)

\* updates have been applied and both sides hold a level
C9_Witness ==
  /\ Live
  /\ outcome \in {"Ok", "ParseErr"}
  /\ DOMAIN order_book.bids # {}
  /\ DOMAIN order_book.asks # {}

\* C10: after apply_depth_update returned Ok, last_update_id is the u of
\* the update.
C10_SequenceIdIsLast ==
  outcome = "Ok" => order_book.last_update_id = update.u

\* an update with U < u has been applied
C10_Witness ==
  /\ outcome = "Ok"
  /\ update.U < update.u
  /\ order_book.last_update_id = update.u

\* every entry of the map m is in list, once, with the stored quantity
HoldsAll(list, m) ==
  /\ Len(list) = Cardinality(DOMAIN m)
  /\ \A k \in DOMAIN m : \E i \in DOMAIN list : list[i] = <<k, m[k]>>

\* C12: bids_list gives all bid levels with strictly decreasing prices and
\* asks_list all ask levels with strictly increasing prices, each price
\* once and with the quantity stored for it.
C12_OrderedLists ==
  Live =>
    LET bl == bids_list(order_book)
        al == asks_list(order_book) IN
    /\ HoldsAll(bl, order_book.bids)
    /\ HoldsAll(al, order_book.asks)
    /\ \A i \in 1..(Len(bl) - 1) : cmp(bl[i][1], bl[i + 1][1]) = "Greater"
    /\ \A i \in 1..(Len(al) - 1) : cmp(al[i][1], al[i + 1][1]) = "Less"

\* an order book with two levels on a side
C12_Witness ==
  /\ Live
  /\ outcome = "Ok"
  /\ Cardinality(DOMAIN order_book.bids) = 2

\* C13: best_bid is the first level of bids_list and best_ask the first of
\* asks_list, each absent exactly when its side is empty; spread is the
\* best ask price minus the best bid price when both sides hold a level and
\* absent otherwise.
C13_BestAndSpread ==
  Live =>
    LET bl == bids_list(order_book)
        al == asks_list(order_book)
        sp == spread(order_book) IN
    /\ best_bid(order_book) = (IF bl = <<>> THEN <<>> ELSE <<bl[1]>>)
    /\ best_ask(order_book) = (IF al = <<>> THEN <<>> ELSE <<al[1]>>)
    /\ (best_bid(order_book) = <<>>) <=> (DOMAIN order_book.bids = {})
    /\ (best_ask(order_book) = <<>>) <=> (DOMAIN order_book.asks = {})
    /\ IF DOMAIN order_book.bids # {} /\ DOMAIN order_book.asks # {}
       THEN /\ Len(sp) = 1
            /\ LET e == sp[1].e + al[1][1].e + bl[1][1].e IN
               rescale(sp[1], e) = rescale(al[1][1], e) - rescale(bl[1][1], e)
       ELSE sp = <<>>

\* an order book with two bids and an ask
C13_Witness ==
  /\ Live
  /\ Cardinality(DOMAIN order_book.bids) = 2
  /\ DOMAIN order_book.asks # {}
  /\ spread(order_book) # <<>>

\* C14: an update whose u is at most last_update_id is answered with Ok and
\* the order book stays as it is.
C14_StaleIsSuccess ==
  [][(Live /\ update'.u <= order_book.last_update_id)
       => (outcome' = "Ok" /\ order_book' = order_book)]_vars

(***************************************************************************)
(* Properties of the records kept in full (SpecLedger).                    *)
(***************************************************************************)
\* the map key a price string stands for
Key(str) == normalize(Parsed[str])

\* the position of the last entry of list for the price of its entry i
IsLastFor(list, i) ==
  \A j \in (i + 1)..Len(list) : Key(list[j][1]) # Key(list[i][1])

\* the keys named in a list of [price, quantity]
Named(list) == { Key(list[i][1]) : i \in DOMAIN list }

Zero == [m |-> 0, e |-> 0]

\* after the deltas, each named price is as its last delta says
SideUpserted(deltas, old, new) ==
  \A i \in DOMAIN deltas :
    IsLastFor(deltas, i) =>
      LET price == Key(deltas[i][1])
          quantity == Parsed[deltas[i][2]] IN
      IF cmp(quantity, Zero) = "Equal"
      THEN /\ price \notin DOMAIN new
           /\ (price \notin DOMAIN old /\ Len(deltas) = 1) => new = old
      ELSE /\ price \in DOMAIN new
           /\ new[price] = quantity

\* C11: for an accepted update, a delta with quantity zero leaves its price
\* absent from its side (removed if it was there, nothing done if it was
\* not), and a delta with another quantity makes its side hold exactly that
\* quantity at its price.
C11_RemovalAndUpsert ==
  [][(wire'.kind = "update" /\ outcome' = "Ok")
       => /\ SideUpserted(wire'.rec.b, order_book.bids, order_book'.bids)
          /\ SideUpserted(wire'.rec.a, order_book.asks, order_book'.asks)]_vars

\* an accepted update removed the bid at 2 and stored 3 at the bid 1.0
C11_Witness ==
  /\ wire.kind = "update"
  /\ outcome = "Ok"
  /\ wire.rec.b = << << <<"2">>, <<"0", ".", "0", "0">> >>,
                     << <<"1", ".", "0">>, <<"3">> >> >>
  /\ DOMAIN order_book.bids = {Key(<<"1", ".", "0">>)}

\* a string of the record is not a decimal number
Malformed(list) ==
  \E i \in DOMAIN list : \E j \in 1..2 : Parsed[list[i][j]] = ParseError

\* C16: a snapshot with a malformed price or quantity on either side gives
\* no order book at all: the controller is left without one.
C16_SnapshotRejectedWhole ==
  (wire.kind = "snapshot" /\ (Malformed(wire.rec.bids) \/ Malformed(wire.rec.asks)))
    => (order_book = NoBook /\ outcome = "SnapshotParseErr")

\* a snapshot whose last ask is malformed, after a well-formed bid, was read
C16_Witness ==
  /\ wire.kind = "snapshot"
  /\ ~Malformed(wire.rec.bids)
  /\ Len(wire.rec.bids) = 1
  /\ Malformed(wire.rec.asks)
  /\ order_book = NoBook

\* the last entry of the raw list decides for each price it names
LastEntryWins(list, m) ==
  \A i \in DOMAIN list :
    IsLastFor(list, i) =>
      LET price == Key(list[i][1])
          quantity == Parsed[list[i][2]] IN
      IF cmp(quantity, Zero) = "Equal"
      THEN price \notin DOMAIN m
      ELSE price \in DOMAIN m /\ m[price] = quantity

\* C18: the order book built from a snapshot holds, for each price of a raw
\* list, what the last entry for that price says.
C18_LastEntryWins ==
  (wire.kind = "snapshot" /\ outcome = "Created")
    => /\ LastEntryWins(wire.rec.bids, order_book.bids)
       /\ LastEntryWins(wire.rec.asks, order_book.asks)

\* the prices of a side that the deltas do not name are as they were
SideFramed(deltas, old, new) ==
  \A price \in (DOMAIN old \cup DOMAIN new) \ Named(deltas) :
    /\ price \in DOMAIN old
    /\ price \in DOMAIN new
    /\ new[price] = old[price]

\* C20: a successful apply_depth_update leaves every bid price that its bid
\* deltas do not name, and every ask price that its ask deltas do not name,
\* with the quantity it had.
C20_Frame ==
  [][(wire'.kind = "update" /\ outcome' = "Ok")
       => /\ SideFramed(wire'.rec.b, order_book.bids, order_book'.bids)
          /\ SideFramed(wire'.rec.a, order_book.asks, order_book'.asks)]_vars

\* an accepted update with ask deltas only, for the price 2, on an order
\* book that holds a bid at 2 and an ask at 1.0
C20_Witness ==
  /\ wire.kind = "update"
  /\ outcome = "Ok"
  /\ wire.rec.b = <<>>
  /\ Named(wire.rec.a) = {Key(<<"2">>)}
  /\ Key(<<"2">>) \in DOMAIN order_book.bids
  /\ Key(<<"1", ".", "0">>) \in DOMAIN order_book.asks

\* C15: once socket.read() has failed the loop is over: no message is
\* handled after the failure.
C15_ReadFailureEndsLoop ==
  [][outcome # "ReadErr"]_vars

\* C17: a failed fetch leaves the controller without an order book, and
\* while there is none every depthUpdate message fetches again, so that
\* the controller gets its order book in the end.
C17_RetryUntilLive ==
  /\ [][(order_book = NoBook /\ outcome' = "FetchErr") => order_book' = NoBook]_vars
  /\ [](outcome = "FetchErr" => order_book = NoBook)
  /\ (order_book = NoBook) ~> (order_book # NoBook)

\* a fetch has failed after an earlier fetch had answered with a snapshot
\* that was not taken: there is still no order book
C17_Witness ==
  /\ outcome = "FetchErr"
  /\ snapshot_id # 0
  /\ order_book = NoBook

\* C19: the updates that change the order book carry strictly increasing u.
C19_StrictlyIncreasing ==
  [][(order_book # NoBook /\ order_book' # order_book /\ mutated # 0)
       => update'.u > mutated]_vars

====
